---- MODULE Spec2Model ----
(***************************************************************************)
(* RealTech Labs site script: cookie consent banner, contact form with     *)
(* field validation, chatbot widget with its canned replies, testimonial   *)
(* carousel, and init(), which sets them up on the page.                   *)
(*                                                                         *)
(* The repository holds two variants of the script: src/script.js and the  *)
(* script in src/unnamed/part_000.  Both are modelled.  The variable       *)
(* `variant` says which one is loaded on the page; it never changes.  A    *)
(* definition that models script.js carries the suffix _S, one that models *)
(* part_000 the suffix _P; a definition without suffix models code that is *)
(* the same in both files (or exists in one of them only).                 *)
(*                                                                         *)
(* Strings are sequences of one-character strings, so that trim(), length, *)
(* the e-mail regular expression, toLowerCase() and includes() are         *)
(* computed as the code computes them.                                     *)
(***************************************************************************)
EXTENDS Integers, Sequences, FiniteSets, TLC

VARIABLES
    variant,            \* "script.js" or "part_000": the script the page loaded
    \* ---- carousel (initTestimonialsCarousel) ----
    totalSlides,        \* slides.length
    innerWidth,         \* window.innerWidth
    slidesPerView,      \* part_000: let slidesPerView; script.js: one slide is 100% wide
    currentIndex,       \* let currentIndex
    dots,               \* the pagination dots: dots[i] is dot i-1's 'active' class
    autoplayInterval,   \* the interval handle variable (0: undefined)
    timers,             \* the interval timers that are running (their ids)
    hovering,           \* the pointer is over the carousel
    hidden,             \* document.hidden
    touchStartX,        \* script.js: let touchStartX
    touchEndX,          \* script.js: let touchEndX
    lastNav,            \* what the last carousel event was (history, for the properties)
    lastDot,            \* the dot the last carousel event clicked (-1: none; history)
    \* ---- contact form (FormValidator, initFormHandling) ----
    hasErrorElement,    \* per field: its parent holds a .form-error element
    hasSuccessMessage,  \* the page holds the #form-success element
    value,              \* per field: field.value
    errorText,          \* per field: the .form-error element's textContent
    ariaInvalid,        \* per field: the aria-invalid attribute ("unset", "true", "false")
    errors,             \* validator.errors: field name -> message (NoError: no entry)
    disabled,           \* submitBtn.disabled
    inFlight,           \* fetch() calls of the form that have not settled
    successVisible,     \* successMessage has the class 'visible'
    hideTimers,         \* pending setTimeout(..., 6000) callbacks
    focused,            \* the field the last submit called focus() on ("none": no call)
    lastForm,           \* what the last form event did (history, for the properties)
    \* ---- a field handed to the validator, outside any form ----
    vType,              \* field.type
    vValue,             \* field.value
    vResult,            \* what validateField(field) answered, once it has run
    vEmail,             \* what isValidEmail(field.value) answered, once it has run
    \* ---- chatbot replies (part_000 getBotResponse) ----
    cMessage,           \* the userMessage handed to getBotResponse
    cReply,             \* the reply it returned ("none": not called yet)
    \* ---- chatbot widget (initChatbot) ----
    isOpen,             \* part_000: let isOpen (script.js keeps no such variable)
    openClass,          \* the widget element has the class 'open'
    ariaHidden,         \* aria-hidden of the chat window/container ("true", "false")
    conversationHistory,\* part_000: let conversationHistory, the messages appended
    replyTimers,        \* part_000: the pending setTimeout(..., 800), oldest first
    chatInFlight,       \* fetch() calls of the chat widget that have not settled
    closeTimers,        \* script.js: pending setTimeout(..., 5000) of a sent chat form
    chatAlerted,        \* the chat widget has called alert()
    lastChat,           \* what the last chat event was (history, for the properties)
    \* ---- cookie consent (initCookieConsent) ----
    stored,             \* localStorage 'realtech-cookies-accepted' ("absent": no entry)
    bannerAria,         \* aria-hidden of the banner ("unset": as the markup has it)
    lastConsent,        \* what the last consent event was (history, for the properties)
    \* ---- the page and init() ----
    present,            \* per element the initializers look up: it is in the document
    loaded,             \* how many initializers of init() have run to their end
    raised              \* the functions and handlers that raised an uncaught TypeError

carVars == <<totalSlides, innerWidth, slidesPerView, currentIndex, dots,
             autoplayInterval, timers, hovering, hidden, touchStartX, touchEndX,
             lastNav, lastDot>>

formVars == <<hasErrorElement, hasSuccessMessage, value, errorText, ariaInvalid,
              errors, disabled, inFlight, successVisible, hideTimers, focused,
              lastForm>>

valVars == <<vType, vValue, vResult, vEmail>>

chatVars == <<cMessage, cReply>>

widgetVars == <<isOpen, openClass, ariaHidden, conversationHistory, replyTimers,
                chatInFlight, closeTimers, chatAlerted, lastChat>>

consentVars == <<stored, bannerAria, lastConsent>>

pageVars == <<present, loaded, raised>>

vars == <<variant, carVars, formVars, valVars, chatVars, widgetVars, consentVars,
          pageVars>>

Variants == {"script.js", "part_000"}

(***************************************************************************)
(* Bounds of the model.                                                    *)
(***************************************************************************)
MaxSlides == 4      \* totalSlides ranges over 1..MaxSlides
MaxTimers == 3      \* no more than MaxTimers interval timers run at once
MaxInFlight == 2    \* no more than MaxInFlight form requests are pending at once
MaxHideTimers == 2  \* no more than MaxHideTimers hide timeouts are pending at once
MaxEmailLen == 5    \* the validator is given every string of up to MaxEmailLen characters
MaxWords == 2       \* a chat message is made of up to MaxWords pieces
MaxChatMessages == 2 \* the chat widget takes up to MaxChatMessages messages

Max(a, b) == IF a >= b THEN a ELSE b
Min(a, b) == IF a <= b THEN a ELSE b
Abs(a) == IF a >= 0 THEN a ELSE 0 - a
\* Math.ceil(a / b) and Math.floor(a / b) for a >= 0, b > 0
Ceil(a, b) == (a + b - 1) \div b
Floor(a, b) == a \div b

(***************************************************************************)
(* THE PAGE AND init()                                                     *)
(***************************************************************************)
\* What the initializers look up in the document.  "consent" is the banner with
\* its accept button, "carousel" the carousel with its track and at least one
\* slide, "chatWidget" the widget with its launcher and its window: the elements
\* an initializer returns on at once when one of them is missing.
Elements ==
    {"consent", "form", "submitBtn", "carousel", "dotsContainer",
     "chatWidget", "chatForm", "chatInput", "chatMessages", "chatSuccess"}

\* The initializers in the order init() calls them.
InitOrder ==
    IF variant = "script.js"
      THEN <<"initCookieConsent", "initFormHandling", "initChatbot",
             "initTestimonialsCarousel">>
      ELSE <<"initCookieConsent", "initFormHandling", "initTestimonialsCarousel",
             "initChatbot">>

\* Initializer f has run to its end.
Ran(f) == \E i \in 1..loaded : InitOrder[i] = f

\* The listeners a widget's initializer adds are in place.
FormBound == Ran("initFormHandling") /\ present["form"]
ChatBound == Ran("initChatbot") /\ present["chatWidget"]
ConsentBound == Ran("initCookieConsent") /\ present["consent"]

\* The page once init() has returned, every element being in the document.
InitPage ==
    /\ present = [e \in Elements |-> TRUE]
    /\ loaded = Len(InitOrder)
    /\ raised = {}

(***************************************************************************)
(* CAROUSEL                                                                *)
(***************************************************************************)
\* The viewport widths the model draws from: both sides of both breakpoints.
Widths == {767, 768, 1023, 1024}
\* The screenX values of touch events: differences 0, 50, 70 and 120.
ScreenXs == {0, 50, 120}
swipeThreshold == 50

getSlidesPerView(w) ==
    IF w >= 1024 THEN 3 ELSE IF w >= 768 THEN 2 ELSE 1

\* part_000 createDots: totalDots buttons, dot 0 active.
createDots_P(spv) ==
    [i \in 1..Ceil(totalSlides, spv) |-> i = 1]

\* script.js: one dot per slide, dot 0 active.
createDots_S ==
    [i \in 1..totalSlides |-> i = 1]

\* part_000 updateCarousel: the dot list as it stands, with 'active' toggled on
\* dot floor(currentIndex / slidesPerView) alone.
updateCarousel_P(ds, idx, spv) ==
    [i \in 1..Len(ds) |-> (i - 1) = Floor(idx, spv)]

\* script.js updateCarousel: 'active' on dot currentIndex alone.
updateCarousel_S(ds, idx) ==
    [i \in 1..Len(ds) |-> (i - 1) = idx]

\* part_000 goToSlide: the new currentIndex, for the slidesPerView given.
goToSlideNoUpperClamp_P(index, spv) == Max(0, index)
goToSlide_P(index, spv) ==
    LET maxIndex == totalSlides - spv
    IN  Max(0, Min(index, maxIndex))

\* script.js goToSlide: the new currentIndex (wraps at both ends).
goToSlide_S(index) ==
    LET c1 == index
        c2 == IF c1 < 0 THEN totalSlides - 1 ELSE c1
        c3 == IF c2 >= totalSlides THEN 0 ELSE c2
    IN  c3

\* setInterval: the id of the new timer.  A browser never hands out an id twice;
\* the model reuses an id once no timer and no handle variable holds it, which no
\* code can tell apart.
FreshTimer(running) ==
    CHOOSE t \in 1..(MaxTimers + 1) :
        /\ t \notin running \cup {autoplayInterval}
        /\ \A u \in 1..(t - 1) : u \in running \cup {autoplayInterval}

\* clearInterval(handle): the timers left running.
clearInterval(running, handle) == running \ {handle}

\* script.js startAutoPlay (isAutoPlaying is never set to false): one more timer,
\* its id stored in autoPlayInterval, whatever that variable held.
startAutoPlay(running) ==
    /\ Cardinality(running) < MaxTimers
    /\ timers' = running \cup {FreshTimer(running)}
    /\ autoplayInterval' = FreshTimer(running)

\* script.js resetAutoPlay: clearInterval(autoPlayInterval); startAutoPlay()
resetAutoPlay(running) ==
    startAutoPlay(clearInterval(running, autoplayInterval))

\* The index moves to idx and the track and dots are redrawn.
Show_S(idx) ==
    /\ currentIndex' = idx
    /\ dots' = updateCarousel_S(dots, idx)

Show_P(idx) ==
    /\ currentIndex' = idx
    /\ dots' = updateCarousel_P(dots, idx, slidesPerView)

InitCarousel ==
    /\ totalSlides \in 1..MaxSlides
    /\ innerWidth \in Widths
    /\ slidesPerView = (IF variant = "part_000" THEN getSlidesPerView(innerWidth) ELSE 1)
    /\ currentIndex = 0
    /\ dots = (IF variant = "part_000"
                 THEN updateCarousel_P(createDots_P(slidesPerView), 0, slidesPerView)
                 ELSE createDots_S)
    /\ autoplayInterval = 1
    /\ timers = {1}
    /\ hovering = FALSE
    /\ hidden = FALSE
    /\ touchStartX = 0
    /\ touchEndX = 0
    /\ lastNav = "init"
    /\ lastDot = 0 - 1

\* ---- script.js handlers ----
nextClick_S ==
    /\ variant = "script.js"
    /\ Show_S(goToSlide_S(currentIndex + 1))
    /\ resetAutoPlay(timers)
    /\ lastNav' = "next"
    /\ lastDot' = 0 - 1
    /\ UNCHANGED <<totalSlides, innerWidth, slidesPerView, hovering, hidden,
                   touchStartX, touchEndX>>
    /\ UNCHANGED <<variant, formVars, valVars, chatVars, widgetVars, consentVars, pageVars>>

prevClick_S ==
    /\ variant = "script.js"
    /\ Show_S(goToSlide_S(currentIndex - 1))
    /\ resetAutoPlay(timers)
    /\ lastNav' = "prev"
    /\ lastDot' = 0 - 1
    /\ UNCHANGED <<totalSlides, innerWidth, slidesPerView, hovering, hidden,
                   touchStartX, touchEndX>>
    /\ UNCHANGED <<variant, formVars, valVars, chatVars, widgetVars, consentVars, pageVars>>

\* The dot buttons call goToSlide(index) and nothing else.
dotClick_S ==
    /\ variant = "script.js"
    /\ \E i \in 0..(Len(dots) - 1) :
          /\ Show_S(goToSlide_S(i))
          /\ lastNav' = "dot"
          /\ lastDot' = i
    /\ UNCHANGED <<totalSlides, innerWidth, slidesPerView, autoplayInterval, timers,
                   hovering, hidden, touchStartX, touchEndX>>
    /\ UNCHANGED <<variant, formVars, valVars, chatVars, widgetVars, consentVars, pageVars>>

keydown_S ==
    /\ variant = "script.js"
    /\ \E key \in {"ArrowLeft", "ArrowRight"} :
          /\ Show_S(goToSlide_S(IF key = "ArrowLeft" THEN currentIndex - 1
                                                     ELSE currentIndex + 1))
          /\ lastNav' = (IF key = "ArrowLeft" THEN "prev" ELSE "next")
          /\ lastDot' = 0 - 1
    /\ resetAutoPlay(timers)
    /\ UNCHANGED <<totalSlides, innerWidth, slidesPerView, hovering, hidden,
                   touchStartX, touchEndX>>
    /\ UNCHANGED <<variant, formVars, valVars, chatVars, widgetVars, consentVars, pageVars>>

touchstart_S ==
    /\ variant = "script.js"
    /\ \E x \in ScreenXs : touchStartX' = x
    /\ lastNav' = "touchstart"
    /\ lastDot' = 0 - 1
    /\ UNCHANGED <<totalSlides, innerWidth, slidesPerView, currentIndex, dots,
                   autoplayInterval, timers, hovering, hidden, touchEndX>>
    /\ UNCHANGED <<variant, formVars, valVars, chatVars, widgetVars, consentVars, pageVars>>

\* touchend: touchEndX is set, then handleSwipe().
touchend_S ==
    /\ variant = "script.js"
    /\ \E x \in ScreenXs :
          LET diff == touchStartX - x
          IN  /\ touchEndX' = x
              /\ IF Abs(diff) > swipeThreshold
                   THEN /\ Show_S(goToSlide_S(IF diff > 0 THEN currentIndex + 1
                                                          ELSE currentIndex - 1))
                        /\ resetAutoPlay(timers)
                        /\ lastNav' = (IF diff > 0 THEN "next" ELSE "prev")
                        /\ lastDot' = 0 - 1
                   ELSE /\ UNCHANGED <<currentIndex, dots, autoplayInterval, timers>>
                        /\ lastNav' = "touchend"
                        /\ lastDot' = 0 - 1
    /\ UNCHANGED <<totalSlides, innerWidth, slidesPerView, hovering, hidden, touchStartX>>
    /\ UNCHANGED <<variant, formVars, valVars, chatVars, widgetVars, consentVars, pageVars>>

mouseenter_S ==
    /\ variant = "script.js"
    /\ ~hovering
    /\ hovering' = TRUE
    /\ timers' = clearInterval(timers, autoplayInterval)
    /\ lastNav' = "mouseenter"
    /\ lastDot' = 0 - 1
    /\ UNCHANGED <<totalSlides, innerWidth, slidesPerView, currentIndex, dots,
                   autoplayInterval, hidden, touchStartX, touchEndX>>
    /\ UNCHANGED <<variant, formVars, valVars, chatVars, widgetVars, consentVars, pageVars>>

mouseleave_S ==
    /\ variant = "script.js"
    /\ hovering
    /\ hovering' = FALSE
    /\ startAutoPlay(timers)
    /\ lastNav' = "mouseleave"
    /\ lastDot' = 0 - 1
    /\ UNCHANGED <<totalSlides, innerWidth, slidesPerView, currentIndex, dots,
                   hidden, touchStartX, touchEndX>>
    /\ UNCHANGED <<variant, formVars, valVars, chatVars, widgetVars, consentVars, pageVars>>

visibilitychange_S ==
    /\ variant = "script.js"
    /\ hidden' = ~hidden
    /\ IF hidden'
         THEN /\ timers' = clearInterval(timers, autoplayInterval)
              /\ UNCHANGED autoplayInterval
         ELSE startAutoPlay(timers)
    /\ lastNav' = "visibilitychange"
    /\ lastDot' = 0 - 1
    /\ UNCHANGED <<totalSlides, innerWidth, slidesPerView, currentIndex, dots,
                   hovering, touchStartX, touchEndX>>
    /\ UNCHANGED <<variant, formVars, valVars, chatVars, widgetVars, consentVars, pageVars>>

\* The window is resized: script.js registers no resize listener, and its
\* updateCarousel moves the track by 100% per index at every width.
resize_S ==
    /\ variant = "script.js"
    /\ \E w \in Widths : innerWidth' = w
    /\ lastNav' = "resize"
    /\ lastDot' = 0 - 1
    /\ UNCHANGED <<totalSlides, slidesPerView, currentIndex, dots, autoplayInterval,
                   timers, hovering, hidden, touchStartX, touchEndX>>
    /\ UNCHANGED <<variant, formVars, valVars, chatVars, widgetVars, consentVars, pageVars>>

\* A running interval timer fires: nextSlide().
tick_S ==
    /\ variant = "script.js"
    /\ \E t \in timers : Show_S(goToSlide_S(currentIndex + 1))
    /\ lastNav' = "tick"
    /\ lastDot' = 0 - 1
    /\ UNCHANGED <<totalSlides, innerWidth, slidesPerView, autoplayInterval, timers,
                   hovering, hidden, touchStartX, touchEndX>>
    /\ UNCHANGED <<variant, formVars, valVars, chatVars, widgetVars, consentVars, pageVars>>

\* ---- part_000 handlers ----
nextClick_P ==
    /\ variant = "part_000"
    /\ Show_P(goToSlide_P(currentIndex + 1, slidesPerView))
    /\ lastNav' = "next"
    /\ lastDot' = 0 - 1
    /\ UNCHANGED <<totalSlides, innerWidth, slidesPerView, autoplayInterval, timers,
                   hovering, hidden, touchStartX, touchEndX>>
    /\ UNCHANGED <<variant, formVars, valVars, chatVars, widgetVars, consentVars, pageVars>>

prevClick_P ==
    /\ variant = "part_000"
    /\ Show_P(goToSlide_P(currentIndex - 1, slidesPerView))
    /\ lastNav' = "prev"
    /\ lastDot' = 0 - 1
    /\ UNCHANGED <<totalSlides, innerWidth, slidesPerView, autoplayInterval, timers,
                   hovering, hidden, touchStartX, touchEndX>>
    /\ UNCHANGED <<variant, formVars, valVars, chatVars, widgetVars, consentVars, pageVars>>

\* Dot i calls goToSlide(i * slidesPerView).
dotClick_P ==
    /\ variant = "part_000"
    /\ \E i \in 0..(Len(dots) - 1) :
          /\ Show_P(goToSlide_P(i * slidesPerView, slidesPerView))
          /\ lastNav' = "dot"
          /\ lastDot' = i
    /\ UNCHANGED <<totalSlides, innerWidth, slidesPerView, autoplayInterval, timers,
                   hovering, hidden, touchStartX, touchEndX>>
    /\ UNCHANGED <<variant, formVars, valVars, chatVars, widgetVars, consentVars, pageVars>>

mouseenter_P ==
    /\ variant = "part_000"
    /\ ~hovering
    /\ hovering' = TRUE
    /\ timers' = clearInterval(timers, autoplayInterval)
    /\ lastNav' = "mouseenter"
    /\ lastDot' = 0 - 1
    /\ UNCHANGED <<totalSlides, innerWidth, slidesPerView, currentIndex, dots,
                   autoplayInterval, hidden, touchStartX, touchEndX>>
    /\ UNCHANGED <<variant, formVars, valVars, chatVars, widgetVars, consentVars, pageVars>>

mouseleave_P ==
    /\ variant = "part_000"
    /\ hovering
    /\ hovering' = FALSE
    /\ Cardinality(timers) < MaxTimers
    /\ timers' = timers \cup {FreshTimer(timers)}
    /\ autoplayInterval' = FreshTimer(timers)
    /\ lastNav' = "mouseleave"
    /\ lastDot' = 0 - 1
    /\ UNCHANGED <<totalSlides, innerWidth, slidesPerView, currentIndex, dots,
                   hidden, touchStartX, touchEndX>>
    /\ UNCHANGED <<variant, formVars, valVars, chatVars, widgetVars, consentVars, pageVars>>

\* part_000 registers no visibilitychange listener: the tab is hidden or shown and
\* nothing of the carousel changes.
visibilitychange_P ==
    /\ variant = "part_000"
    /\ hidden' = ~hidden
    /\ lastNav' = "visibilitychange"
    /\ lastDot' = 0 - 1
    /\ UNCHANGED <<totalSlides, innerWidth, slidesPerView, currentIndex, dots,
                   autoplayInterval, timers, hovering, touchStartX, touchEndX>>
    /\ UNCHANGED <<variant, formVars, valVars, chatVars, widgetVars, consentVars, pageVars>>

\* resize: slidesPerView = getSlidesPerView(); createDots(); goToSlide(0).
resize_P ==
    /\ variant = "part_000"
    /\ \E w \in Widths :
          LET spv == getSlidesPerView(w)
              idx == goToSlide_P(0, spv)
          IN  /\ innerWidth' = w
              /\ slidesPerView' = spv
              /\ currentIndex' = idx
              /\ dots' = updateCarousel_P(createDots_P(spv), idx, spv)
    /\ lastNav' = "resize"
    /\ lastDot' = 0 - 1
    /\ UNCHANGED <<totalSlides, autoplayInterval, timers, hovering, hidden,
                   touchStartX, touchEndX>>
    /\ UNCHANGED <<variant, formVars, valVars, chatVars, widgetVars, consentVars, pageVars>>

tick_P ==
    /\ variant = "part_000"
    /\ \E t \in timers : Show_P(goToSlide_P(currentIndex + 1, slidesPerView))
    /\ lastNav' = "tick"
    /\ lastDot' = 0 - 1
    /\ UNCHANGED <<totalSlides, innerWidth, slidesPerView, autoplayInterval, timers,
                   hovering, hidden, touchStartX, touchEndX>>
    /\ UNCHANGED <<variant, formVars, valVars, chatVars, widgetVars, consentVars, pageVars>>

(***************************************************************************)
(* STRINGS                                                                 *)
(***************************************************************************)
\* The characters String.prototype.trim() strips and the regex class \s matches
\* (the ones the model's inputs use).
IsSpace(c) == c \in {" ", "\t", "\n"}

\* String.prototype.trim()
trim(s) ==
    IF \A i \in 1..Len(s) : IsSpace(s[i]) THEN <<>>
    ELSE LET first == CHOOSE i \in 1..Len(s) :
                          ~IsSpace(s[i]) /\ \A j \in 1..(i - 1) : IsSpace(s[j])
             last  == CHOOSE i \in 1..Len(s) :
                          ~IsSpace(s[i]) /\ \A j \in (i + 1)..Len(s) : IsSpace(s[j])
         IN  SubSeq(s, first, last)

\* n copies of the character c
Rep(c, n) == [i \in 1..n |-> c]

(***************************************************************************)
(* FIELD VALIDATION                                                        *)
(***************************************************************************)
\* /^[^\s@]+@[^\s@]+\.[^\s@]+$/ as the automaton of the expression.  Positions:
\* 0 start, 1 in the first [^\s@]+, 2 after @, 3 in the second [^\s@]+,
\* 4 after \., 5 in the third [^\s@]+ (accepting).
emailRegexStep(q, c) ==
    IF IsSpace(c) THEN {}
    ELSE IF c = "@" THEN (IF q = 1 THEN {2} ELSE {})
    ELSE CASE q = 0 -> {1}
           [] q = 1 -> {1}
           [] q = 2 -> {3}
           [] q = 3 -> IF c = "." THEN {3, 4} ELSE {3}
           [] q = 4 -> {5}
           [] q = 5 -> {5}

\* The positions the automaton is in after reading s[lo..hi] from the positions qs
\* (the range is halved rather than read character by character, to keep the
\* evaluation shallow on long values; the result is the same).
RECURSIVE emailRegexRun(_, _, _, _)
emailRegexRun(s, lo, hi, qs) ==
    IF qs = {} \/ lo > hi THEN qs
    ELSE IF lo = hi THEN UNION {emailRegexStep(q, s[lo]) : q \in qs}
    ELSE LET mid == (lo + hi) \div 2
         IN  emailRegexRun(s, mid + 1, hi, emailRegexRun(s, lo, mid, qs))

\* isValidEmail(email): emailRegex.test(email)
isValidEmailNoTld(email) ==
    {3, 5} \cap emailRegexRun(email, 1, Len(email), {0}) # {}
isValidEmail(email) ==
    5 \in emailRegexRun(email, 1, Len(email), {0})

\* script.js validateField, up to the error message ("" when the field passes).
validateField_S(type, raw) ==
    LET v == trim(raw)
    IN  CASE type = "text" ->
                 (IF v = <<>> THEN "This field is required"
                  ELSE IF Len(v) < 2 THEN "Please enter at least 2 characters"
                  ELSE IF Len(v) > 100 THEN "Please enter no more than 100 characters"
                  ELSE "")
          [] type = "email" ->
                 (IF v = <<>> THEN "Email is required"
                  ELSE IF ~isValidEmail(v) THEN "Please enter a valid email address"
                  ELSE "")
          [] type = "textarea" ->
                 (IF v = <<>> THEN "This field is required"
                  ELSE IF Len(v) < 10
                         THEN "Please provide more details (at least 10 characters)"
                  ELSE IF Len(v) > 5000 THEN "Message is too long (max 5000 characters)"
                  ELSE "")
          [] type = "select-one" ->
                 (IF v = <<>> THEN "Please select an option" ELSE "")
          [] OTHER -> ""

\* part_000 validateField, up to the error message ("" when the field passes).
validateField_P(type, raw) ==
    LET v == trim(raw)
    IN  CASE type = "text" ->
                 (IF v = <<>> THEN "This field is required"
                  ELSE IF Len(v) < 2 THEN "Please enter at least 2 characters"
                  ELSE "")
          [] type = "email" ->
                 (IF v = <<>> THEN "Email is required"
                  ELSE IF ~isValidEmail(v) THEN "Please enter a valid email"
                  ELSE "")
          [] type = "textarea" ->
                 (IF v = <<>> THEN "This field is required"
                  ELSE IF Len(v) < 10 THEN "Please provide more details"
                  ELSE "")
          [] type = "select-one" ->
                 (IF v = <<>> THEN "Please select an option" ELSE "")
          [] OTHER -> ""

\* The message validateField computes in the variant the page loaded.
fieldError(type, raw) ==
    IF variant = "script.js" THEN validateField_S(type, raw)
                             ELSE validateField_P(type, raw)

(***************************************************************************)
(* CONTACT FORM                                                            *)
(***************************************************************************)
\* form.querySelectorAll('input, select, textarea') in document order: a name
\* field, the hidden honeypot, an e-mail field.
Fields ==
    << [name |-> "name", type |-> "text"],
       [name |-> "_gotcha", type |-> "text"],
       [name |-> "email", type |-> "email"] >>

FieldNames == {Fields[i].name : i \in 1..Len(Fields)}
Visible == FieldNames \ {"_gotcha"}
TypeOf(n) == Fields[CHOOSE i \in 1..Len(Fields) : Fields[i].name = n].type

\* The values a user (or form.reset()) leaves in a field: empty, too short once
\* trimmed, valid; empty, not an address, an address.
FieldValues(n) ==
    IF n = "email"
      THEN {<<>>, <<"a", "@">>, <<"a", "@", "b", ".", "c">>}
      ELSE {<<>>, <<" ", "a">>, <<"a", "b">>}

\* The validator's view of the page: what setFieldError and clearFieldError write.
Marks == [errorText |-> errorText, ariaInvalid |-> ariaInvalid, errors |-> errors]

setFieldError(st, n, message) ==
    [errorText   |-> IF hasErrorElement[n]
                       THEN [st.errorText EXCEPT ![n] = message] ELSE st.errorText,
     ariaInvalid |-> IF hasErrorElement[n]
                       THEN [st.ariaInvalid EXCEPT ![n] = "true"] ELSE st.ariaInvalid,
     errors      |-> [st.errors EXCEPT ![n] = message]]

clearFieldErrorEveryField(st, n) ==
    [errorText   |-> [m \in FieldNames |->
                        IF hasErrorElement[m] THEN "" ELSE st.errorText[m]],
     ariaInvalid |-> [m \in FieldNames |->
                        IF hasErrorElement[m] THEN "false" ELSE st.ariaInvalid[m]],
     errors      |-> [m \in FieldNames |-> ""]]
clearFieldError(st, n) ==
    [errorText   |-> IF hasErrorElement[n]
                       THEN [st.errorText EXCEPT ![n] = ""] ELSE st.errorText,
     ariaInvalid |-> IF hasErrorElement[n]
                       THEN [st.ariaInvalid EXCEPT ![n] = "false"] ELSE st.ariaInvalid,
     errors      |-> [st.errors EXCEPT ![n] = ""]]

\* validateField(field): the marks it leaves (it returns error = "").
validateField(st, n) ==
    LET error == fieldError(TypeOf(n), value[n])
    IN  IF error # "" THEN setFieldError(st, n, error) ELSE clearFieldError(st, n)

\* The forEach of validateForm from field i on: the honeypot is skipped.
RECURSIVE validateFrom(_, _)
validateFrom(r, i) ==
    IF i > Len(Fields) THEN r
    ELSE IF Fields[i].name = "_gotcha" THEN validateFrom(r, i + 1)
    ELSE LET n == Fields[i].name
             ok == fieldError(Fields[i].type, value[n]) = ""
         IN  validateFrom([st |-> validateField(r.st, n),
                           isValid |-> r.isValid /\ ok], i + 1)

\* script.js validateForm: this.errors.clear() first.
validateForm_S(st) ==
    validateFrom([st |-> [st EXCEPT !.errors = [n \in FieldNames |-> ""]],
                  isValid |-> TRUE], 1)

\* part_000 validateForm
validateForm_P(st) ==
    validateFrom([st |-> st, isValid |-> TRUE], 1)

validateForm(st) ==
    IF variant = "script.js" THEN validateForm_S(st) ELSE validateForm_P(st)

\* form.querySelector('[aria-invalid="true"]'): the first such field in document
\* order, "none" when there is none.
firstError(aria) ==
    LET hit == {i \in 1..Len(Fields) : aria[Fields[i].name] = "true"}
    IN  IF hit = {} THEN "none"
        ELSE Fields[CHOOSE i \in hit : \A j \in hit : i <= j].name

\* validator.fields.forEach((field) => validator.clearFieldError(field))
RECURSIVE clearFrom(_, _)
clearFrom(st, i) ==
    IF i > Len(Fields) THEN st
    ELSE clearFrom(clearFieldError(st, Fields[i].name), i + 1)

\* What the success branch does to the marks: script.js clears every field's
\* error, part_000 leaves them as they are.
successMarks(st) ==
    IF variant = "script.js" THEN clearFrom(st, 1) ELSE st

SetMarks(st) ==
    /\ errorText' = st.errorText
    /\ ariaInvalid' = st.ariaInvalid
    /\ errors' = st.errors

InitForm ==
    /\ hasErrorElement \in {h \in [FieldNames -> BOOLEAN] : ~h["_gotcha"]}
    /\ hasSuccessMessage \in BOOLEAN
    /\ value = [n \in FieldNames |-> <<>>]
    /\ errorText = [n \in FieldNames |-> ""]
    /\ ariaInvalid = [n \in FieldNames |-> "unset"]
    /\ errors = [n \in FieldNames |-> ""]
    /\ disabled = FALSE
    /\ inFlight = 0
    /\ successVisible = FALSE
    /\ hideTimers = 0
    /\ focused = "none"
    /\ lastForm = "init"

\* The user types in a visible field: the value changes and the 'input' listener
\* runs clearFieldError(field).
input ==
    /\ FormBound
    /\ \E n \in Visible : \E v \in FieldValues(n) \ {value[n]} :
          /\ value' = [value EXCEPT ![n] = v]
          /\ SetMarks(clearFieldError(Marks, n))
    /\ focused' = "none"
    /\ lastForm' = "input"
    /\ UNCHANGED <<hasErrorElement, hasSuccessMessage, disabled, inFlight,
                   successVisible, hideTimers>>
    /\ UNCHANGED <<variant, carVars, valVars, chatVars, widgetVars, consentVars, pageVars>>

\* A visible field loses focus: the 'blur' listener runs validateField(field).
blur ==
    /\ FormBound
    /\ \E n \in Visible : SetMarks(validateField(Marks, n))
    /\ focused' = "none"
    /\ lastForm' = "blur"
    /\ UNCHANGED <<hasErrorElement, hasSuccessMessage, value, disabled, inFlight,
                   successVisible, hideTimers>>
    /\ UNCHANGED <<variant, carVars, valVars, chatVars, widgetVars, consentVars, pageVars>>

\* The guard of the submit listener: if (submitBtn.disabled) return;
submitGuardNone == FALSE
submitGuard == disabled

\* submitBtn.disabled = true, the statement before the try block.
disabledBeforeFetchKept == FALSE
disabledBeforeFetch == TRUE

\* submitBtn.disabled = false, the statement of the finally block.
disabledInFinallyKept == TRUE
disabledInFinally == FALSE

\* The 'submit' listener up to the await.  With no button[type="submit"] in the
\* form submitBtn is null and reading submitBtn.disabled raises a TypeError.
submit ==
    LET r == validateForm(Marks)
    IN  /\ FormBound
        /\ SetMarks(r.st)
        /\ IF ~r.isValid
             THEN /\ focused' = firstError(r.st.ariaInvalid)
                  /\ lastForm' = "submitInvalid"
                  /\ UNCHANGED <<disabled, inFlight, raised>>
             ELSE IF ~present["submitBtn"]
               THEN /\ focused' = "none"
                    /\ lastForm' = "submitRaised"
                    /\ raised' = raised \cup {"contact-form submit"}
                    /\ UNCHANGED <<disabled, inFlight>>
             ELSE IF submitGuard
               THEN /\ focused' = "none"
                    /\ lastForm' = "submitGuarded"
                    /\ UNCHANGED <<disabled, inFlight, raised>>
               ELSE /\ inFlight < MaxInFlight
                    /\ focused' = "none"
                    /\ lastForm' = "submitSent"
                    /\ disabled' = disabledBeforeFetch
                    /\ inFlight' = inFlight + 1
                    /\ UNCHANGED raised
        /\ UNCHANGED <<hasErrorElement, hasSuccessMessage, value, successVisible,
                       hideTimers>>
        /\ UNCHANGED <<present, loaded>>
        /\ UNCHANGED <<variant, carVars, valVars, chatVars, widgetVars, consentVars>>

\* The fetch settles and the listener runs to its end: response.ok, a response
\* that is not ok, or a rejected promise; then the finally block.
response ==
    /\ inFlight > 0
    /\ \E outcome \in {"ok", "notOk", "throw"} :
          /\ lastForm' = outcome
          /\ IF outcome = "ok"
               THEN /\ value' = [n \in FieldNames |-> <<>>]
                    /\ SetMarks(successMarks(Marks))
                    /\ IF hasSuccessMessage
                         THEN /\ hideTimers < MaxHideTimers
                              /\ successVisible' = TRUE
                              /\ hideTimers' = hideTimers + 1
                         ELSE UNCHANGED <<successVisible, hideTimers>>
               ELSE UNCHANGED <<value, errorText, ariaInvalid, errors,
                                successVisible, hideTimers>>
    /\ disabled' = disabledInFinally
    /\ inFlight' = inFlight - 1
    /\ focused' = "none"
    /\ UNCHANGED <<hasErrorElement, hasSuccessMessage>>
    /\ UNCHANGED <<variant, carVars, valVars, chatVars, widgetVars, consentVars, pageVars>>

\* A 6000 ms timeout of an earlier success fires: classList.remove('visible').
hideSuccess ==
    /\ hideTimers > 0
    /\ hideTimers' = hideTimers - 1
    /\ successVisible' = FALSE
    /\ focused' = "none"
    /\ lastForm' = "hide"
    /\ UNCHANGED <<hasErrorElement, hasSuccessMessage, value, errorText, ariaInvalid,
                   errors, disabled, inFlight>>
    /\ UNCHANGED <<variant, carVars, valVars, chatVars, widgetVars, consentVars, pageVars>>

(***************************************************************************)
(* THE VALIDATOR ON ONE FIELD                                              *)
(***************************************************************************)
FieldTypes == {"text", "email", "textarea", "select-one"}

\* Every string of exactly n characters over the alphabet.
RECURSIVE StringsOfLen(_, _)
StringsOfLen(alphabet, n) ==
    IF n = 0 THEN {<<>>}
    ELSE {Append(w, c) : w \in StringsOfLen(alphabet, n - 1), c \in alphabet}

EmailAlphabet == {"a", "@", ".", " "}

\* The addresses of the specification's examples.
UserAtExampleCom == <<"u", "s", "e", "r", "@", "e", "x", "a", "m", "p", "l", "e", ".", "c", "o", "m">>
UserAt == <<"u", "s", "e", "r", "@">>
AtExampleCom == <<"@", "e", "x", "a", "m", "p", "l", "e", ".", "c", "o", "m">>
UserDotExampleCom == <<"u", "s", "e", "r", ".", "e", "x", "a", "m", "p", "l", "e", ".", "c", "o", "m">>

\* Lengths on both sides of every threshold of validateField.
Lengths == {0, 1, 2, 3, 9, 10, 11, 99, 100, 101, 4999, 5000, 5001}
Pads == {<<>>, <<" ">>, <<"\t", " ">>}

\* The values the model hands to the validator: every short string over the
\* e-mail alphabet, the examples, and runs of a letter of each length, bare and
\* padded with white space.
ValidatorInputs ==
    UNION {StringsOfLen(EmailAlphabet, n) : n \in 0..MaxEmailLen}
    \cup {UserAtExampleCom, UserAt, AtExampleCom, UserDotExampleCom}
    \cup {p \o Rep("a", n) \o p : n \in Lengths, p \in Pads}

InitValidator ==
    /\ vType = "text"
    /\ vValue = <<>>
    /\ vResult = [done |-> FALSE, error |-> ""]
    /\ vEmail = "untested"

\* validateField(field) runs on the field: its answer is the error message, ""
\* when it returns true.
applyValidateField ==
    /\ ~vResult.done
    /\ vResult' = [done |-> TRUE, error |-> fieldError(vType, vValue)]
    /\ UNCHANGED <<vType, vValue, vEmail>>
    /\ UNCHANGED <<variant, carVars, formVars, chatVars, widgetVars, consentVars, pageVars>>

\* The regular expression is tested on the value as it stands.
applyIsValidEmail ==
    /\ vEmail = "untested"
    /\ vEmail' = (IF isValidEmail(vValue) THEN "accepted" ELSE "rejected")
    /\ UNCHANGED <<vType, vValue, vResult>>
    /\ UNCHANGED <<variant, carVars, formVars, chatVars, widgetVars, consentVars, pageVars>>

(***************************************************************************)
(* CHATBOT REPLIES (part_000)                                              *)
(***************************************************************************)
UpperCase == <<"A", "B", "C", "D", "E", "F", "G", "H", "I", "J", "K", "L", "M", "N", "O", "P", "Q", "R", "S", "T", "U", "V", "W", "X", "Y", "Z">>
LowerCase == <<"a", "b", "c", "d", "e", "f", "g", "h", "i", "j", "k", "l", "m", "n", "o", "p", "q", "r", "s", "t", "u", "v", "w", "x", "y", "z">>

\* String.prototype.toLowerCase(), letter by letter
toLowerCase(s) ==
    [i \in 1..Len(s) |->
        IF \E k \in 1..Len(UpperCase) : UpperCase[k] = s[i]
          THEN LowerCase[CHOOSE k \in 1..Len(UpperCase) : UpperCase[k] = s[i]]
          ELSE s[i]]

\* String.prototype.includes(): k is a substring of s
includes(s, k) ==
    \E i \in 0..(Len(s) - Len(k)) : SubSeq(s, i + 1, i + Len(k)) = k

kwQuote == <<"q", "u", "o", "t", "e">>
kwPrice == <<"p", "r", "i", "c", "e">>
kwCost == <<"c", "o", "s", "t">>
kwService == <<"s", "e", "r", "v", "i", "c", "e">>
kwCall == <<"c", "a", "l", "l">>
kwSchedule == <<"s", "c", "h", "e", "d", "u", "l", "e">>
kwMeeting == <<"m", "e", "e", "t", "i", "n", "g">>
kwContact == <<"c", "o", "n", "t", "a", "c", "t">>
kwEmail == <<"e", "m", "a", "i", "l">>

QuoteReply == "For a custom quote, please share your project details and I'll connect you with our team. You can also <a href='https://calendly.com/realltechlabs/free-consultation' target='_blank'>book a free consultation</a>."
ServiceReply == "We offer: Software Development, AI Solutions, Transcription & Captioning, Content Moderation, and Freelancing Mentorship. <a href='services.html'>View all services</a>"
BookingReply == "Great! <a href='https://calendly.com/realltechlabs/free-consultation' target='_blank'>Book your free 30-minute consultation here</a>."
ContactReply == "Email us at <a href='mailto:realltechlabs@gmail.com'>realltechlabs@gmail.com</a>. We respond within 24 hours!"
FallbackReply == "Thanks for your message! For detailed inquiries, please <a href='contact.html'>fill out our contact form</a> or email <a href='mailto:realltechlabs@gmail.com'>realltechlabs@gmail.com</a>. We'll get back to you within 24 hours."

getBotResponseServiceFirst(userMessage) ==
    LET msg == toLowerCase(userMessage)
    IN  IF includes(msg, kwService) THEN ServiceReply
        ELSE IF includes(msg, kwQuote) \/ includes(msg, kwPrice) \/ includes(msg, kwCost)
          THEN QuoteReply
        ELSE IF includes(msg, kwCall) \/ includes(msg, kwSchedule)
                \/ includes(msg, kwMeeting)
          THEN BookingReply
        ELSE IF includes(msg, kwContact) \/ includes(msg, kwEmail) THEN ContactReply
        ELSE FallbackReply

getBotResponse(userMessage) ==
    LET msg == toLowerCase(userMessage)
    IN  IF includes(msg, kwQuote) \/ includes(msg, kwPrice) \/ includes(msg, kwCost)
          THEN QuoteReply
        ELSE IF includes(msg, kwService) THEN ServiceReply
        ELSE IF includes(msg, kwCall) \/ includes(msg, kwSchedule)
                \/ includes(msg, kwMeeting)
          THEN BookingReply
        ELSE IF includes(msg, kwContact) \/ includes(msg, kwEmail) THEN ContactReply
        ELSE FallbackReply

\* The pieces chat messages are made of: keywords of every rule in lower, upper and
\* mixed case, halves of a keyword, a prefix that hides a keyword inside a word,
\* other text.
Pieces ==
    { kwQuote, <<"P", "R", "I", "C", "E">>, kwCost, <<"S", "e", "r", "v", "i", "c", "e">>, kwCall, kwSchedule,
      <<"M", "e", "e", "t", "i", "n", "g">>, kwContact, <<"E", "M", "A", "I", "L">>, <<"p", "r", "i">>, <<"c", "e">>, <<"r", "e">>, <<"h", "e", "l", "l", "o">>, <<" ">> }

RECURSIVE MessagesOf(_)
MessagesOf(n) ==
    IF n = 0 THEN {<<>>}
    ELSE {m \o p : m \in MessagesOf(n - 1), p \in Pieces}

Messages == UNION {MessagesOf(n) : n \in 0..MaxWords}

InitChat ==
    /\ cMessage = <<>>
    /\ cReply = "none"

\* getBotResponse(message) is called and returns.
reply ==
    /\ cReply = "none"
    /\ cReply' = getBotResponse(cMessage)
    /\ UNCHANGED cMessage
    /\ UNCHANGED <<variant, carVars, formVars, valVars, widgetVars, consentVars, pageVars>>

(***************************************************************************)
(* CHATBOT WIDGET (initChatbot)                                            *)
(***************************************************************************)
\* What the user types in the chat input or a quick-action button carries:
\* nothing, white space, a message with a keyword, a message without.
ChatInputs == {<<>>, <<" ">>, kwPrice, <<"h", "i">>}

\* How many entries of the history role wrote.
Said(role) ==
    Cardinality({i \in 1..Len(conversationHistory) :
                    conversationHistory[i].role = role})

\* The closed widget of a freshly loaded page.
InitWidget ==
    /\ isOpen = FALSE
    /\ openClass = FALSE
    /\ ariaHidden = "true"
    /\ conversationHistory = <<>>
    /\ replyTimers = <<>>
    /\ chatInFlight = 0
    /\ closeTimers = 0
    /\ chatAlerted = FALSE
    /\ lastChat = "init"

\* ---- part_000 ----
\* toggleChat, the launcher's click listener.
toggleChat_P ==
    /\ variant = "part_000"
    /\ ChatBound
    /\ isOpen' = ~isOpen
    /\ openClass' = isOpen'
    /\ ariaHidden' = (IF isOpen' THEN "false" ELSE "true")
    /\ lastChat' = "toggle"
    /\ UNCHANGED <<conversationHistory, replyTimers, chatInFlight, closeTimers,
                   chatAlerted>>
    /\ UNCHANGED <<variant, carVars, formVars, valVars, chatVars, consentVars,
                   pageVars>>

\* The Escape key is pressed: initChatbot of part_000 adds no keydown listener.
escape_P ==
    /\ variant = "part_000"
    /\ lastChat' = "escape"
    /\ UNCHANGED <<isOpen, openClass, ariaHidden, conversationHistory, replyTimers,
                   chatInFlight, closeTimers, chatAlerted>>
    /\ UNCHANGED <<variant, carVars, formVars, valVars, chatVars, consentVars,
                   pageVars>>

\* A click outside the widget: initChatbot of part_000 adds no document click
\* listener.
outsideClick_P ==
    /\ variant = "part_000"
    /\ lastChat' = "outside"
    /\ UNCHANGED <<isOpen, openClass, ariaHidden, conversationHistory, replyTimers,
                   chatInFlight, closeTimers, chatAlerted>>
    /\ UNCHANGED <<variant, carVars, formVars, valVars, chatVars, consentVars,
                   pageVars>>

\* The guard of handleSubmit: if (!message.trim()) return;
blankMessageUntrimmed(message) == message = <<>>
blankMessage(message) == trim(message) = <<>>

\* The chat form is submitted with the input's value, or a quick-action button is
\* clicked: handleSubmit(message).  Reading input.value with no #chatbot-input, and
\* messages.appendChild in addMessage with no #chatbot-messages, raise a TypeError;
\* addMessage pushes to the history after appendChild.  sendToFormspree starts the
\* fetch and is not awaited; the reply's timeout is set right after.
handleSubmit_P ==
    /\ variant = "part_000"
    /\ ChatBound
    /\ \E source \in {"form", "quick"} : \E message \in ChatInputs :
          /\ source = "form" => present["chatForm"]
          /\ IF source = "form" /\ ~present["chatInput"]
               THEN /\ raised' = raised \cup {"chatbot-form submit"}
                    /\ lastChat' = "raised"
                    /\ UNCHANGED <<conversationHistory, replyTimers, chatInFlight>>
             ELSE IF blankMessage(message)
               THEN /\ lastChat' = "blank"
                    /\ UNCHANGED <<conversationHistory, replyTimers, chatInFlight,
                                   raised>>
             ELSE IF ~present["chatMessages"]
               THEN /\ raised' = raised \cup {"addMessage"}
                    /\ lastChat' = "raised"
                    /\ UNCHANGED <<conversationHistory, replyTimers, chatInFlight>>
               ELSE /\ Said("user") < MaxChatMessages
                    /\ conversationHistory' =
                          Append(conversationHistory, [role |-> "user", text |-> message])
                    /\ chatInFlight' = chatInFlight + 1
                    /\ replyTimers' = Append(replyTimers, message)
                    /\ lastChat' = "message"
                    /\ UNCHANGED raised
    /\ UNCHANGED <<isOpen, openClass, ariaHidden, closeTimers, chatAlerted>>
    /\ UNCHANGED <<present, loaded>>
    /\ UNCHANGED <<variant, carVars, formVars, valVars, chatVars, consentVars>>

\* The oldest 800 ms timeout is due: it was set in handleSubmit, whatever becomes of
\* the relay request.
replyDueAfterRelay == replyTimers # <<>> /\ chatInFlight = 0
replyDue == replyTimers # <<>>

\* The message the callback of the timeout that fires answers: the parameter of
\* the handleSubmit call that set it, which the arrow function closes over.
closureMessageLatest ==
    LET users == {i \in 1..Len(conversationHistory) :
                     conversationHistory[i].role = "user"}
    IN  conversationHistory[CHOOSE i \in users : \A j \in users : j <= i].text
closureMessage == Head(replyTimers)

\* The timeout fires: addMessage(getBotResponse(message)).
replyTimeout_P ==
    /\ replyDue
    /\ conversationHistory' =
          Append(conversationHistory,
                 [role |-> "bot", text |-> getBotResponse(closureMessage)])
    /\ replyTimers' = Tail(replyTimers)
    /\ lastChat' = "reply"
    /\ UNCHANGED <<isOpen, openClass, ariaHidden, chatInFlight, closeTimers,
                   chatAlerted>>
    /\ UNCHANGED <<variant, carVars, formVars, valVars, chatVars, consentVars,
                   pageVars>>

\* The fetch of sendToFormspree settles: an answer of any status ends the try
\* block, a rejected promise goes to catch (e) { console.log(...) }.
relaySettles_P ==
    /\ variant = "part_000"
    /\ chatInFlight > 0
    /\ chatInFlight' = chatInFlight - 1
    /\ \E outcome \in {"ok", "notOk", "throw"} : lastChat' = outcome
    /\ UNCHANGED <<isOpen, openClass, ariaHidden, conversationHistory, replyTimers,
                   closeTimers, chatAlerted>>
    /\ UNCHANGED <<variant, carVars, formVars, valVars, chatVars, consentVars,
                   pageVars>>

\* ---- script.js ----
\* The launcher's click listener: classList.toggle('open'), aria-hidden, then
\* form.querySelector('input') when the widget opened, a TypeError with no
\* #chatbot-form.
toggle_S ==
    /\ variant = "script.js"
    /\ ChatBound
    /\ openClass' = ~openClass
    /\ ariaHidden' = (IF openClass' THEN "false" ELSE "true")
    /\ raised' = (IF openClass' /\ ~present["chatForm"]
                    THEN raised \cup {"chatbot-toggle click"} ELSE raised)
    /\ lastChat' = "toggle"
    /\ UNCHANGED <<isOpen, conversationHistory, replyTimers, chatInFlight,
                   closeTimers, chatAlerted>>
    /\ UNCHANGED <<present, loaded>>
    /\ UNCHANGED <<variant, carVars, formVars, valVars, chatVars, consentVars>>

\* What the keydown (Escape) and the document click (outside the widget) listeners
\* do: close the widget if it is open.
closeIfOpen ==
    /\ openClass' = FALSE
    /\ ariaHidden' = (IF openClass THEN "true" ELSE ariaHidden)

escape_S ==
    /\ variant = "script.js"
    /\ ChatBound
    /\ closeIfOpen
    /\ lastChat' = "escape"
    /\ UNCHANGED <<isOpen, conversationHistory, replyTimers, chatInFlight,
                   closeTimers, chatAlerted>>
    /\ UNCHANGED <<variant, carVars, formVars, valVars, chatVars, consentVars,
                   pageVars>>

outsideClick_S ==
    /\ variant = "script.js"
    /\ ChatBound
    /\ closeIfOpen
    /\ lastChat' = "outside"
    /\ UNCHANGED <<isOpen, conversationHistory, replyTimers, chatInFlight,
                   closeTimers, chatAlerted>>
    /\ UNCHANGED <<variant, carVars, formVars, valVars, chatVars, consentVars,
                   pageVars>>

\* The chat form's submit listener up to the await: name, e-mail and message are
\* filled in (filled) or one of them is blank.
chatFormSubmit_S ==
    /\ variant = "script.js"
    /\ ChatBound
    /\ present["chatForm"]
    /\ \E filled \in BOOLEAN :
          IF filled
            THEN /\ chatInFlight < MaxChatMessages
                 /\ chatInFlight' = chatInFlight + 1
                 /\ lastChat' = "message"
            ELSE /\ lastChat' = "blank"
                 /\ UNCHANGED chatInFlight
    /\ UNCHANGED <<isOpen, openClass, ariaHidden, conversationHistory, replyTimers,
                   closeTimers, chatAlerted>>
    /\ UNCHANGED <<variant, carVars, formVars, valVars, chatVars, consentVars,
                   pageVars>>

\* The chat form's fetch settles.  response.ok: the form and the message list are
\* hidden, the success element shown and the 5000 ms timeout set; with no
\* #chatbot-messages or no #chatbot-success the TypeError lands in the catch block,
\* which alerts, as do a response that is not ok and a rejected promise.
chatResponse_S ==
    /\ variant = "script.js"
    /\ chatInFlight > 0
    /\ chatInFlight' = chatInFlight - 1
    /\ \E outcome \in {"ok", "notOk", "throw"} :
          /\ lastChat' = outcome
          /\ IF outcome = "ok" /\ present["chatMessages"] /\ present["chatSuccess"]
               THEN /\ closeTimers < MaxChatMessages
                    /\ closeTimers' = closeTimers + 1
                    /\ UNCHANGED chatAlerted
               ELSE /\ chatAlerted' = TRUE
                    /\ UNCHANGED closeTimers
    /\ UNCHANGED <<isOpen, openClass, ariaHidden, conversationHistory, replyTimers>>
    /\ UNCHANGED <<variant, carVars, formVars, valVars, chatVars, consentVars,
                   pageVars>>

\* The 5000 ms timeout of a sent chat form fires: the form comes back and the
\* widget is closed.
closeTimeout_S ==
    /\ closeTimers > 0
    /\ closeTimers' = closeTimers - 1
    /\ openClass' = FALSE
    /\ ariaHidden' = "true"
    /\ lastChat' = "closeTimeout"
    /\ UNCHANGED <<isOpen, conversationHistory, replyTimers, chatInFlight,
                   chatAlerted>>
    /\ UNCHANGED <<variant, carVars, formVars, valVars, chatVars, consentVars,
                   pageVars>>

(***************************************************************************)
(* COOKIE CONSENT (initCookieConsent)                                      *)
(***************************************************************************)
\* What localStorage.getItem('realtech-cookies-accepted') can be at page load:
\* no entry, the string 'true', any other string.
StoredValues == {"absent", "true", "other"}

\* The banner's aria-hidden once initCookieConsent has run: hidden (and
\* display: none) if the entry === 'true', shown otherwise.
bannerAfterLoadIfAnyEntry(entry) == IF entry # "absent" THEN "true" ELSE "false"
bannerAfterLoad(entry) == IF entry = "true" THEN "true" ELSE "false"

\* lastConsent holds the last two consent events.
Then(event) == <<lastConsent[2], event>>

InitConsent ==
    /\ stored \in StoredValues
    /\ bannerAria = bannerAfterLoad(stored)
    /\ lastConsent = <<"init", "init">>

\* The accept button's click listener.
acceptHandler ==
    /\ stored' = "true"
    /\ bannerAria' = "true"

\* The user clicks the accept button of the banner that is shown.
acceptClick ==
    /\ ConsentBound
    /\ bannerAria = "false"
    /\ acceptHandler
    /\ lastConsent' = Then("accept")
    /\ UNCHANGED <<variant, carVars, formVars, valVars, chatVars, widgetVars,
                   pageVars>>

\* script.js: the document's keydown listener: Escape while the banner is shown
\* calls acceptBtn.click().
consentKeydown_S ==
    /\ variant = "script.js"
    /\ ConsentBound
    /\ \E key \in {"Escape", "Enter"} :
          IF key = "Escape" /\ bannerAria = "false"
            THEN acceptHandler
            ELSE UNCHANGED <<stored, bannerAria>>
    /\ lastConsent' = Then("keydown")
    /\ UNCHANGED <<variant, carVars, formVars, valVars, chatVars, widgetVars,
                   pageVars>>

\* part_000: a key is pressed; initCookieConsent adds no keydown listener.
consentKeydown_P ==
    /\ variant = "part_000"
    /\ lastConsent' = Then("keydown")
    /\ UNCHANGED <<stored, bannerAria>>
    /\ UNCHANGED <<variant, carVars, formVars, valVars, chatVars, widgetVars,
                   pageVars>>

\* The page is loaded again: localStorage is kept, the document is built anew
\* (the chat widget is closed and empty again) and initCookieConsent runs.
pageLoad ==
    /\ ConsentBound
    /\ bannerAria' = bannerAfterLoad(stored)
    /\ lastConsent' = Then("load")
    /\ UNCHANGED stored
    /\ isOpen' = FALSE
    /\ openClass' = FALSE
    /\ ariaHidden' = "true"
    /\ conversationHistory' = <<>>
    /\ replyTimers' = <<>>
    /\ chatInFlight' = 0
    /\ closeTimers' = 0
    /\ chatAlerted' = FALSE
    /\ lastChat' = "init"
    /\ UNCHANGED <<variant, carVars, formVars, valVars, chatVars, pageVars>>

(***************************************************************************)
(* init()                                                                  *)
(***************************************************************************)
\* initTestimonialsCarousel with a carousel, a track and slides but no
\* #carousel-dots: dotsContainer is null, and dotsContainer.appendChild (script.js,
\* while the dots are made) or dotsContainer.innerHTML (part_000, createDots)
\* raises a TypeError, which init() does not catch.
carouselRaises == present["carousel"] /\ ~present["dotsContainer"]

\* init() on DOMContentLoaded: the initializers in order, up to the first that
\* raises.  initCookieConsent, initFormHandling and initChatbot return on a missing
\* element or look the others up without using them.
init ==
    /\ loaded = 0
    /\ raised = {}
    /\ LET at == CHOOSE i \in 1..Len(InitOrder) :
                    InitOrder[i] = "initTestimonialsCarousel"
       IN  IF carouselRaises
             THEN /\ loaded' = at - 1
                  /\ raised' = {"initTestimonialsCarousel"}
             ELSE /\ loaded' = Len(InitOrder)
                  /\ raised' = {}
    /\ bannerAria' = (IF present["consent"] THEN bannerAfterLoad(stored) ELSE bannerAria)
    /\ lastConsent' = Then("load")
    /\ UNCHANGED <<stored, present>>
    /\ UNCHANGED <<variant, carVars, formVars, valVars, chatVars, widgetVars>>

(***************************************************************************)
(* SPECIFICATIONS                                                          *)
(***************************************************************************)
\* Parts of the page a specification leaves at rest stay as the page load left
\* them, on a page with one slide and every optional element present.
RestCarousel ==
    /\ InitCarousel
    /\ totalSlides = 1
    /\ innerWidth = 1024

RestForm ==
    /\ InitForm
    /\ \A n \in FieldNames : hasErrorElement[n] = (n # "_gotcha")
    /\ hasSuccessMessage

RestWidget == InitWidget

RestConsent ==
    /\ InitConsent
    /\ stored = "absent"

\* Pages on which at most one of the elements of S is missing.
PagesMissingOneOf(S) ==
    {p \in [Elements -> BOOLEAN] :
        /\ \A e \in Elements \ S : p[e]
        /\ \A e, f \in S : ~p[e] /\ ~p[f] => e = f}

\* The carousel: any number of slides, any viewport width, either script.
InitC ==
    /\ variant \in Variants
    /\ InitCarousel
    /\ RestForm
    /\ InitValidator
    /\ InitChat
    /\ RestWidget
    /\ RestConsent
    /\ InitPage

NextC ==
    \/ nextClick_S \/ prevClick_S \/ dotClick_S \/ keydown_S
    \/ touchstart_S \/ touchend_S
    \/ mouseenter_S \/ mouseleave_S \/ visibilitychange_S \/ resize_S \/ tick_S
    \/ nextClick_P \/ prevClick_P \/ dotClick_P
    \/ mouseenter_P \/ mouseleave_P \/ visibilitychange_P \/ resize_P \/ tick_P

SpecCarousel == InitC /\ [][NextC]_vars

\* The contact form: with or without the optional elements, either script.
InitF ==
    /\ variant \in Variants
    /\ InitForm
    /\ RestCarousel
    /\ InitValidator
    /\ InitChat
    /\ RestWidget
    /\ RestConsent
    /\ InitPage

NextF ==
    \/ input \/ blur \/ submit \/ response \/ hideSuccess

SpecForm == InitF /\ [][NextF]_vars

\* The contact form when the relay answers every request: the fetch promise of a
\* pending request settles in the end, and the handler then runs to its end.
SpecFormAnswered == InitF /\ [][NextF]_vars /\ WF_vars(response)

\* The validator on one field of any type with any of the input values.
InitV ==
    /\ variant \in Variants
    /\ RestCarousel
    /\ RestForm
    /\ InitChat
    /\ RestWidget
    /\ RestConsent
    /\ InitPage
    /\ vType \in FieldTypes
    /\ vValue \in ValidatorInputs
    /\ vResult = [done |-> FALSE, error |-> ""]
    /\ vEmail = "untested"

NextV ==
    \/ applyValidateField \/ applyIsValidEmail

SpecValidator == InitV /\ [][NextV]_vars

\* The chat widget: either script, pages on which one of the elements the widget
\* looks up after its first check may be missing.
InitW ==
    /\ variant \in Variants
    /\ RestCarousel
    /\ RestForm
    /\ InitValidator
    /\ InitChat
    /\ InitWidget
    /\ RestConsent
    /\ present \in PagesMissingOneOf({"chatForm", "chatInput", "chatMessages",
                                      "chatSuccess"})
    /\ loaded = Len(InitOrder)
    /\ raised = {}

NextW ==
    \/ toggleChat_P \/ escape_P \/ outsideClick_P \/ handleSubmit_P
    \/ replyTimeout_P \/ relaySettles_P
    \/ toggle_S \/ escape_S \/ outsideClick_S \/ chatFormSubmit_S
    \/ chatResponse_S \/ closeTimeout_S

SpecChat == InitW /\ [][NextW]_vars

\* The chat widget when timeouts fire: a timeout that is due is run in the end; the
\* relay may answer or never answer.
SpecChatTimed == InitW /\ [][NextW]_vars /\ WF_vars(replyTimeout_P)

\* The consent banner: either script, any stored entry, with the launcher of the
\* chat widget as the other widget on the page.
InitK ==
    /\ variant \in Variants
    /\ RestCarousel
    /\ RestForm
    /\ InitValidator
    /\ InitChat
    /\ InitWidget
    /\ InitConsent
    /\ InitPage

NextK ==
    \/ acceptClick \/ consentKeydown_S \/ consentKeydown_P \/ pageLoad
    \/ toggleChat_P \/ toggle_S \/ escape_P \/ escape_S

SpecConsent == InitK /\ [][NextK]_vars

\* The page from DOMContentLoaded on: either script, a document in which at most
\* one of the elements is missing; then the contact form, the consent banner and
\* the chat launcher are used.
InitP ==
    /\ variant \in Variants
    /\ RestCarousel
    /\ RestForm
    /\ InitValidator
    /\ InitChat
    /\ InitWidget
    /\ stored = "absent"
    /\ bannerAria = "unset"
    /\ lastConsent = <<"init", "init">>
    /\ present \in PagesMissingOneOf(Elements)
    /\ loaded = 0
    /\ raised = {}

NextP ==
    \/ init
    \/ input \/ blur \/ submit \/ response \/ hideSuccess
    \/ acceptClick
    \/ toggleChat_P \/ toggle_S

SpecPage == InitP /\ [][NextP]_vars

\* getBotResponse on any message (part_000; script.js has no canned replies).
InitR ==
    /\ variant = "part_000"
    /\ RestCarousel
    /\ RestForm
    /\ InitValidator
    /\ RestWidget
    /\ RestConsent
    /\ InitPage
    /\ cMessage \in Messages
    /\ cReply = "none"

NextR ==
    \/ reply

SpecReply == InitR /\ [][NextR]_vars

(***************************************************************************)
(* PROPERTIES                                                              *)
(***************************************************************************)

\* ---- C1 ----
\* C1 as stated: in every reachable state of the carousel
\* 0 <= currentIndex <= totalSlides - slidesPerView.
C1_IndexWithinSlides ==
    /\ 0 <= currentIndex
    /\ currentIndex <= totalSlides - slidesPerView

\* C1 (amended): in every reachable state of the carousel, after any sequence of
\* next, prev, dot-click, keyboard, swipe, autoplay-tick and resize events,
\* 0 <= currentIndex <= max(0, totalSlides - slidesPerView): with fewer slides
\* than slidesPerView the index stays 0.
C1_IndexClamped ==
    /\ 0 <= currentIndex
    /\ currentIndex <= Max(0, totalSlides - slidesPerView)

\* 'next' has just been invoked on a carousel with fewer slides than slidesPerView.
C1_NextWithFewSlides ==
    /\ variant = "part_000"
    /\ lastNav = "next"
    /\ totalSlides < slidesPerView
    /\ currentIndex = 0

\* ---- C2 ----
\* C2: an event that arrives while a relay request of the form is in flight starts
\* no further request, and no step leaves more than one request in flight.
C2_SingleFlight ==
    [][ /\ (inFlight >= 1 => inFlight' <= inFlight)
        /\ inFlight' <= 1 ]_vars

\* A submit of a valid form has just arrived while a request was in flight.
C2_SubmitWhileInFlight ==
    /\ lastForm = "submitGuarded"
    /\ inFlight = 1
    /\ disabled

\* ---- C3 ----
\* The first visible field in document order that validateField rejects.
FirstInvalid ==
    LET bad == {i \in 1..Len(Fields) :
                   /\ Fields[i].name # "_gotcha"
                   /\ fieldError(Fields[i].type, value[Fields[i].name]) # ""}
    IN  IF bad = {} THEN "none"
        ELSE Fields[CHOOSE i \in bad : \A j \in bad : i <= j].name

\* C3: a submit while a non-honeypot field is invalid makes no network call, leaves
\* the submit control's disabled state as it was, and moves the focus to the first
\* invalid field in document order.
C3_InvalidSubmitFocusesFirst ==
    [][ lastForm' = "submitInvalid" =>
           /\ inFlight' = inFlight
           /\ disabled' = disabled
           /\ focused' = FirstInvalid' ]_vars

\* ---- C4 ----
\* C4: right after an HTTP-ok response is handled every field's error message is
\* empty, no field is marked invalid, the error map is empty and every value is
\* empty.
C4_SuccessClearsAll ==
    lastForm = "ok" =>
        \A n \in FieldNames :
            /\ errorText[n] = ""
            /\ ariaInvalid[n] # "true"
            /\ errors[n] = ""
            /\ value[n] = <<>>

\* ---- C5 ----
\* C5: right after a non-2xx answer or a thrown request is handled the success
\* notice is not visible and the submit control is enabled.
C5_FailureHidesNotice ==
    lastForm \in {"notOk", "throw"} => (~successVisible /\ ~disabled)

\* ---- C6 ----
\* C6: in every reachable state at most one autoplay interval timer is running.
C6_OneTicker ==
    Cardinality(timers) <= 1

\* ---- C7 ----
\* C7: while the pointer hovers the carousel or the tab is hidden, no autoplay
\* timer is running.
C7_PausedMeansNoTimer ==
    (hovering \/ hidden) => timers = {}

\* ---- C8 ----
\* The rule table of the chatbot, in its order.
ReplyRules ==
    << [keys |-> {kwQuote, kwPrice, kwCost}, reply |-> QuoteReply],
       [keys |-> {kwService}, reply |-> ServiceReply],
       [keys |-> {kwCall, kwSchedule, kwMeeting}, reply |-> BookingReply],
       [keys |-> {kwContact, kwEmail}, reply |-> ContactReply] >>

\* The two characters are the same letter, whatever their case.
SameLetter(c, d) ==
    \/ c = d
    \/ \E k \in 1..Len(UpperCase) :
          {c, d} = {UpperCase[k], LowerCase[k]}

\* The keyword occurs in the message, case-insensitively.
Occurs(k, m) ==
    \E i \in 1..(Len(m) - Len(k) + 1) :
        \A j \in 1..Len(k) : SameLetter(m[i + j - 1], k[j])

FirstMatch(m) ==
    LET hit == {r \in 1..Len(ReplyRules) : \E k \in ReplyRules[r].keys : Occurs(k, m)}
    IN  IF hit = {} THEN FallbackReply
        ELSE ReplyRules[CHOOSE r \in hit : \A q \in hit : r <= q].reply

\* C8: getBotResponse returns the reply of the first rule, in the order
\* quote/price/cost, service, call/schedule/meeting, contact/email, whose keyword
\* occurs case-insensitively in the message, the fallback when none occurs; a
\* message with both 'price' and 'service' gets the quote reply.
C8_FirstMatchWins ==
    cReply # "none" =>
        /\ cReply = FirstMatch(cMessage)
        /\ (Occurs(kwPrice, cMessage) /\ Occurs(kwService, cMessage)
               => cReply = QuoteReply)

\* A message holding both 'price' and 'service' has been answered.
C8_PriceAndServiceAnswered ==
    /\ cReply = QuoteReply
    /\ Occurs(kwPrice, cMessage)
    /\ Occurs(kwService, cMessage)

\* ---- C9 ----
RequiredMessage(type) ==
    CASE type = "email" -> "Email is required"
      [] type = "select-one" -> "Please select an option"
      [] OTHER -> "This field is required"

\* C9: for every field kind validateField fails with the kind's 'required' message
\* when the trimmed value is empty; a short text passes exactly when its length is
\* in 2..100, a long text exactly when its length is in 10..5000, a single choice
\* whenever it is not empty.
C9_LengthRules ==
    vResult.done =>
        LET n == Len(trim(vValue))
        IN  /\ (n = 0 => vResult.error = RequiredMessage(vType))
            /\ (vType = "text" /\ n > 0 => (vResult.error = "" <=> n \in 2..100))
            /\ (vType = "textarea" /\ n > 0 => (vResult.error = "" <=> n \in 10..5000))
            /\ (vType = "select-one" /\ n > 0 => vResult.error = "")

\* ---- C10 ----
\* s is local@domain.tld: one '@', no white space, a '.' after the '@', and the
\* three parts not empty.
EmailShape(s) ==
    /\ \A k \in 1..Len(s) : ~IsSpace(s[k])
    /\ \E i \in 2..Len(s) :
          /\ s[i] = "@"
          /\ \A k \in 1..Len(s) : s[k] = "@" => k = i
          /\ \E j \in (i + 2)..(Len(s) - 1) : s[j] = "."

\* C10: the e-mail test accepts exactly the values of shape local@domain.tld
\* (validateField applies it to the trimmed value); user@example.com passes and
\* user@, @example.com and user.example.com fail.
C10_EmailShape ==
    /\ vEmail # "untested" =>
          /\ (vEmail = "accepted") <=> EmailShape(vValue)
          /\ vValue = UserAtExampleCom => vEmail = "accepted"
          /\ vValue \in {UserAt, AtExampleCom, UserDotExampleCom} => vEmail = "rejected"
    /\ (vResult.done /\ vType = "email") =>
          ((vResult.error = "") <=> EmailShape(trim(vValue)))

\* user@example.com has gone through the test and through validateField of an
\* e-mail field.
C10_ExampleAccepted ==
    /\ vValue = UserAtExampleCom
    /\ vType = "email"
    /\ vEmail = "accepted"
    /\ vResult.done
    /\ vResult.error = ""

\* ---- C11 ----
\* C11: in every reachable state the submit control is disabled exactly when a
\* relay request of the form is in flight: disabled from the start of the request
\* to the handling of its response, and never disabled with no request in flight.
C11_DisabledIffInFlight ==
    disabled <=> (inFlight >= 1)

\* A request has just been sent: the control is disabled while it is in flight.
C11_Submitting ==
    /\ lastForm = "submitSent"
    /\ inFlight = 1
    /\ disabled

\* ---- C12 ----
\* Idle with the control enabled: no request in flight, the control usable.
Idle == inFlight = 0 /\ ~disabled

\* C12: when the relay answers every request, a form that is Submitting is
\* eventually Idle again with the submit control enabled; and the step that
\* handles a response, a failure included, is itself the step back to Idle.
C12_BackToIdle ==
    /\ (inFlight >= 1) ~> Idle
    /\ [][ lastForm' \in {"ok", "notOk", "throw"} /\ inFlight >= 1 => Idle' ]_vars

\* A failed submission has just been handled and the form is Idle again.
C12_FailureHandled ==
    /\ lastForm \in {"notOk", "throw"}
    /\ Idle

\* ---- C13 ----
\* C13: an HTTP-ok response shows the notice (when the page has one), and the
\* notice is hidden only by the timeout of the response that showed it last: all
\* timeouts run 6000 ms, so they fire in the order they were set, and a timeout
\* that fires while a later one is pending hides the later notice before its
\* 6000 ms are over.
C13_NoticeFullWindow ==
    [][ /\ (lastForm' = "ok" /\ inFlight' < inFlight /\ hasSuccessMessage
                => successVisible')
        /\ (hideTimers' < hideTimers => hideTimers' = 0) ]_vars

\* ---- C14 ----
\* C14: no submission enters Submitting while the success notice is visible.
C14_NoSubmitWhileNoticeVisible ==
    [][ successVisible => inFlight' <= inFlight ]_vars

\* ---- C15 ----
\* C15: every non-blank message the chat of part_000 took into its history gets its
\* canned reply appended in the end, the k-th reply answering the k-th message,
\* whether the relay request succeeds, fails, throws or never settles; and the step
\* in which a relay request settles, whatever its outcome, shows no alert, appends
\* no message, sets no timer and leaves the widget's open state as it was.
C15_ReplyDespiteRelay ==
    /\ \A k \in 1..MaxChatMessages :
          (Said("user") >= k) ~>
              /\ Said("bot") >= k
              /\ \E i, j \in 1..Len(conversationHistory) :
                    /\ i < j
                    /\ conversationHistory[i].role = "user"
                    /\ conversationHistory[j].role = "bot"
                    /\ Cardinality({h \in 1..i : conversationHistory[h].role = "user"}) = k
                    /\ Cardinality({h \in 1..j : conversationHistory[h].role = "bot"}) = k
                    /\ conversationHistory[j].text
                          = getBotResponse(conversationHistory[i].text)
    /\ [][ variant = "part_000" /\ chatInFlight' < chatInFlight =>
               UNCHANGED <<conversationHistory, replyTimers, chatAlerted, isOpen,
                           openClass, ariaHidden, raised>> ]_vars

\* The reply to a message has been appended while its relay request is pending.
C15_RepliedWhilePending ==
    /\ variant = "part_000"
    /\ lastChat = "reply"
    /\ Said("user") = 1
    /\ Said("bot") = 1
    /\ chatInFlight = 1

\* ---- C16 ----
\* The recorded state of the widget: part_000's isOpen; script.js records it in the
\* widget's class only.
Open == IF variant = "part_000" THEN isOpen ELSE openClass

\* C16: a launcher click on the closed widget opens it; a launcher click, an Escape
\* key press and a click outside the widget each close the open widget; and the
\* recorded state, the 'open' class and aria-hidden agree in every reachable state.
C16_ToggleAndAgree ==
    /\ [](Open = openClass /\ ariaHidden = (IF Open THEN "false" ELSE "true"))
    /\ [][ /\ (lastChat' = "toggle" => Open' = ~Open)
           /\ (lastChat' \in {"escape", "outside"} /\ Open => ~Open') ]_vars

\* ---- C17 ----
\* C17: whenever the consent banner is set up it is hidden exactly when the stored
\* entry is 'true' (so at every page load); and a stored 'true' is never changed.
C17_BannerFollowsStored ==
    /\ [](ConsentBound => ((bannerAria = "true") <=> (stored = "true")))
    /\ [][ stored = "true" => stored' = "true" ]_vars

\* The page has been loaded again after an accept: the banner is hidden.
C17_LoadedAfterAccept ==
    /\ lastConsent = <<"accept", "load">>
    /\ stored = "true"
    /\ bannerAria = "true"

\* ---- C18 ----
\* C18: the stored entry changes only in a step in which the user clicks the accept
\* button.
C18_WrittenOnlyOnAccept ==
    [][ stored' # stored => lastConsent' = Then("accept") ]_vars

\* ---- C19 ----
\* C19: whichever element is missing from the document, no initializer and no
\* handler of a widget raises an error.
C19_NoErrorRaised ==
    raised = {}

\* ---- C20 ----
\* The index the claim states for a move by d slides: clamped to
\* [0, totalSlides - slidesPerView].
PageStep(d) ==
    Max(0, Min(currentIndex + d, totalSlides - slidesPerView))

\* C20: a next and an autoplay tick move the index forward by slidesPerView slides,
\* a prev moves it back by slidesPerView slides, the result clamped to
\* [0, totalSlides - slidesPerView].
C20_StepIsOnePage ==
    [][ /\ (lastNav' \in {"next", "tick"} => currentIndex' = PageStep(slidesPerView))
        /\ (lastNav' = "prev" => currentIndex' = PageStep(0 - slidesPerView)) ]_vars

\* ---- C21 ----
\* The autoplay interval has been restarted in this step: the timer the handle
\* named is cleared and the handle names a new running timer, which ticks a full
\* interval from now.
Restarted ==
    /\ autoplayInterval' # autoplayInterval
    /\ autoplayInterval' \in timers'
    /\ autoplayInterval \notin timers'

\* C21: each manual navigation (prev or next by button, arrow key or swipe, and a
\* dot click) restarts the autoplay interval.
C21_ManualNavRestartsAutoplay ==
    [][ lastNav' \in {"next", "prev", "dot"} => Restarted ]_vars

\* ---- C22 ----
\* The user entries of the history, and the entry a step appended (if it appended
\* exactly one entry and changed nothing before it).
UserTexts ==
    {conversationHistory[i].text : i \in {j \in 1..Len(conversationHistory) :
                                            conversationHistory[j].role = "user"}}

AppendedOne(role) ==
    /\ Len(conversationHistory') = Len(conversationHistory) + 1
    /\ SubSeq(conversationHistory', 1, Len(conversationHistory)) = conversationHistory
    /\ conversationHistory'[Len(conversationHistory')].role = role

\* C22: the history only grows at its end; a step appends a user entry exactly when
\* it makes one relay call, and it then sets the one timeout of the reply; every
\* user entry holds a character that is not white space, and a submit found blank
\* appends nothing, calls nothing and sets no timeout; each reply timeout that
\* fires appends one bot entry, so that bot entries and pending timeouts together
\* are as many as the user entries, and in the end every user entry has its bot
\* entry.
C22_HistoryProtocol ==
    /\ [][ /\ Len(conversationHistory') >= Len(conversationHistory)
           /\ SubSeq(conversationHistory', 1, Len(conversationHistory))
                = conversationHistory
           /\ (variant = "part_000" /\ chatInFlight' > chatInFlight =>
                  /\ chatInFlight' = chatInFlight + 1
                  /\ AppendedOne("user")
                  /\ Len(replyTimers') = Len(replyTimers) + 1)
           /\ (Said("user")' > Said("user") =>
                  /\ AppendedOne("user")
                  /\ chatInFlight' = chatInFlight + 1)
           /\ (Said("bot")' > Said("bot") =>
                  /\ AppendedOne("bot")
                  /\ Len(replyTimers') = Len(replyTimers) - 1
                  /\ chatInFlight' = chatInFlight)
           /\ (lastChat' = "blank" =>
                  UNCHANGED <<conversationHistory, chatInFlight, replyTimers>>) ]_vars
    /\ [](\A text \in UserTexts : \E i \in 1..Len(text) : ~IsSpace(text[i]))
    /\ [](Said("bot") + Len(replyTimers) = Said("user"))
    /\ \A k \in 1..MaxChatMessages : (Said("user") >= k) ~> (Said("bot") >= k)

\* A white-space message has been submitted after a message that was taken: the
\* history holds the first message and its reply alone.
C22_BlankAfterMessage ==
    /\ variant = "part_000"
    /\ lastChat = "blank"
    /\ Said("user") = 1
    /\ Said("bot") = 1
    /\ Len(conversationHistory) = 2
    /\ chatInFlight = 1

\* ---- C26 ----
\* The position in the history of the k-th entry that role wrote.
Nth(role, k) ==
    CHOOSE i \in 1..Len(conversationHistory) :
        /\ conversationHistory[i].role = role
        /\ Cardinality({h \in 1..i : conversationHistory[h].role = role}) = k

\* C26: in every reachable state the k-th bot entry of the history is the canned
\* reply to the k-th user entry and stands after it, however close together the
\* messages were sent.
C26_RepliesInOrder ==
    /\ Said("bot") <= Said("user")
    /\ \A k \in 1..Said("bot") :
          /\ Nth("user", k) < Nth("bot", k)
          /\ conversationHistory[Nth("bot", k)].text
               = getBotResponse(conversationHistory[Nth("user", k)].text)

\* Two messages with different replies were sent before the first reply was due,
\* and both replies have been appended.
C26_TwoSentBeforeFirstReply ==
    /\ Len(conversationHistory) = 4
    /\ conversationHistory[1].role = "user"
    /\ conversationHistory[2].role = "user"
    /\ conversationHistory[3].role = "bot"
    /\ conversationHistory[4].role = "bot"
    /\ getBotResponse(conversationHistory[1].text)
         # getBotResponse(conversationHistory[2].text)

\* ---- C23 ----
\* The tier of a viewport width, as the claim states it.
Tier(w) ==
    CASE w >= 1024 -> 3
      [] w >= 768 /\ w < 1024 -> 2
      [] OTHER -> 1

\* C23: right after a resize event slidesPerView is the tier of the new viewport
\* width, there are ceil(totalSlides / slidesPerView) dots, and the index is within
\* the clamped range of the new slidesPerView.
C23_ResizeRecomputes ==
    [][ lastNav' = "resize" =>
           /\ slidesPerView' = Tier(innerWidth')
           /\ Len(dots') = Ceil(totalSlides, slidesPerView')
           /\ 0 <= currentIndex'
           /\ currentIndex' <= Max(0, totalSlides - slidesPerView') ]_vars

\* ---- C25 ----
\* The dots that carry the class 'active' (dot 0 is the first).
ActiveDots == {i \in 0..(Len(dots) - 1) : dots[i + 1]}

\* C25: in every reachable state exactly one dot is active, and right after a click
\* on dot i the active dot is dot i.
C25_ClickedDotIsActive ==
    /\ [](Cardinality(ActiveDots) = 1)
    /\ [][ lastNav' = "dot" => ActiveDots' = {lastDot'} ]_vars

\* ---- C24 ----
\* The value of a field of this type breaks a rule of the validator (the values of
\* the form stay below the maximum lengths).
Invalid(type, raw) ==
    LET len == Len(trim(raw))
    IN  CASE type = "email" -> ~EmailShape(trim(raw))
          [] type = "textarea" -> len < 10
          [] type = "select-one" -> len = 0
          [] OTHER -> len < 2

\* The step left the error entries and marks of every field but n as they were.
OthersKept(n) ==
    \A m \in FieldNames \ {n} :
        /\ errors'[m] = errors[m]
        /\ errorText'[m] = errorText[m]
        /\ ariaInvalid'[m] = ariaInvalid[m]

\* C24: a blur on a field sets the field's error entry exactly when its value is
\* invalid and changes no value; an input event on a field (its value is what the
\* user typed) clears the field's error entry and changes no other value; both
\* leave the error entries and invalid marks of all other fields and the submit
\* control as they were, and start no request.
C24_FieldLocalErrors ==
    [][ /\ (lastForm' = "blur" =>
               /\ \E n \in Visible :
                     /\ (errors'[n] # "") <=> Invalid(TypeOf(n), value[n])
                     /\ OthersKept(n)
               /\ value' = value
               /\ disabled' = disabled
               /\ inFlight' = inFlight)
        /\ (lastForm' = "input" =>
               /\ \E n \in Visible :
                     /\ \A m \in FieldNames : value'[m] # value[m] <=> m = n
                     /\ errors'[n] = ""
                     /\ OthersKept(n)
               /\ disabled' = disabled
               /\ inFlight' = inFlight) ]_vars

\* An input event has cleared the error of one field while another field keeps the
\* error a blur gave it.
C24_InputBesideError ==
    /\ lastForm = "input"
    /\ \E n, m \in Visible :
          /\ n # m
          /\ errors[n] = ""
          /\ value[n] # <<>>
          /\ errors[m] # ""
          /\ ariaInvalid[m] = "true"

====
